---- MODULE Spec2Model ----
(***************************************************************************)
(* A model of the Matrix class of MathLib (include/Matrix.h,               *)
(* src/Matrix.cpp): a heap of Matrix objects and the calls a client can    *)
(* make on them: the constructor, get, set, add, multiply and print.       *)
(***************************************************************************)
EXTENDS Integers, Sequences, FiniteSets, TLC

(***************************************************************************)
(* Bounds of the model.                                                    *)
(***************************************************************************)
\* the largest row or column count a caller asks for
MaxDim == 2
\* the objects a run makes plus the positions it writes with set
MaxWork == 3

(***************************************************************************)
(* double.  A value is kept as IEEE-754 keeps it: a class (finite,         *)
(* infinite, not-a-number), a sign and a magnitude.  Zero has a sign.  The *)
(* finite values of the model are integers far below 2^53, on which the    *)
(* sums and products of a double are exact and never overflow.             *)
(***************************************************************************)
Abs(n) == IF n < 0 THEN -n ELSE n

Fin(n) == [cls |-> "fin", sgn |-> IF n < 0 THEN -1 ELSE 1, mag |-> Abs(n)]

\* the literal 0.0
Zero == Fin(0)

NegZero == [cls |-> "fin", sgn |-> -1, mag |-> 0]

PosInf == [cls |-> "inf", sgn |-> 1, mag |-> 0]

NegInf == [cls |-> "inf", sgn |-> -1, mag |-> 0]

NaN == [cls |-> "nan", sgn |-> 1, mag |-> 0]

IsFinite(x) == x.cls = "fin"

IsZero(x) == x.cls = "fin" /\ x.mag = 0

\* the signed integer a finite value stands for
Num(x) == x.sgn * x.mag

\* x + y on doubles
FAdd(x, y) ==
  IF x.cls = "nan" \/ y.cls = "nan" THEN NaN
  ELSE IF x.cls = "inf" /\ y.cls = "inf"
       THEN (IF x.sgn = y.sgn THEN x ELSE NaN)
  ELSE IF x.cls = "inf" THEN x
  ELSE IF y.cls = "inf" THEN y
  ELSE IF Num(x) + Num(y) # 0 THEN Fin(Num(x) + Num(y))
  ELSE IF x.sgn = -1 /\ y.sgn = -1 THEN NegZero
  ELSE Zero

\* x * y on doubles
FMul(x, y) ==
  IF x.cls = "nan" \/ y.cls = "nan" THEN NaN
  ELSE IF x.cls = "inf" \/ y.cls = "inf"
       THEN (IF IsZero(x) \/ IsZero(y) THEN NaN
             ELSE [cls |-> "inf", sgn |-> x.sgn * y.sgn, mag |-> 0])
  ELSE [cls |-> "fin", sgn |-> x.sgn * y.sgn, mag |-> x.mag * y.mag]

\* x == y on doubles: a NaN equals nothing, the two zeros are equal
FEq(x, y) ==
  /\ x.cls # "nan"
  /\ y.cls # "nan"
  /\ x.cls = y.cls
  /\ IF x.cls = "inf" THEN x.sgn = y.sgn ELSE Num(x) = Num(y)

(***************************************************************************)
(* The exceptions the class throws: the exception class and its what(),    *)
(* "<where> - <what>", in ASCII.                                           *)
(***************************************************************************)
NoErr == [type |-> "none", where |-> "", what |-> ""]

CtorErr == [type |-> "std::invalid_argument", where |-> "Matrix::Matrix",
            what |-> "Las dimensiones deben ser positivas"]

GetErr == [type |-> "std::out_of_range", where |-> "Matrix::get",
           what |-> "Indice fuera de rango"]

SetErr == [type |-> "std::out_of_range", where |-> "Matrix::set",
           what |-> "Indice fuera de rango"]

\* AddErr with the constructor's throw pasted in
AddErrPasted == [type |-> "std::invalid_argument", where |-> "Matrix::Matrix",
                 what |-> "Las dimensiones deben ser positivas"]

AddErr == [type |-> "std::invalid_argument", where |-> "Matrix::add",
           what |-> "Las matrices deben tener el mismo tamano"]

MultiplyErr == [type |-> "std::invalid_argument", where |-> "Matrix::multiply",
                what |-> "Dimensiones incompatibles"]

(***************************************************************************)
(* class Matrix: rows, cols and data, a vector of rows vectors of cols     *)
(* doubles, indexed from 0.                                                *)
(***************************************************************************)
\* ZeroData with rows and cols swapped in the resize
ZeroDataSwapped(r, c) == [i \in 0 .. c - 1 |-> [j \in 0 .. r - 1 |-> Zero]]

\* std::vector<double>(cols, 0.0) resized to rows copies
ZeroData(r, c) == [i \in 0 .. r - 1 |-> [j \in 0 .. c - 1 |-> Zero]]

\* MatrixCtor with < for <= in its test
MatrixCtorNegativeOnly(r, c) ==
  IF r < 0 \/ c < 0
  THEN [err |-> CtorErr, obj |-> << >>]
  ELSE [err |-> NoErr,
        obj |-> << [rows |-> r, cols |-> c, data |-> ZeroData(r, c)] >>]

\* Matrix::Matrix(r, c): the exception thrown, or the object made
MatrixCtor(r, c) ==
  IF r <= 0 \/ c <= 0
  THEN [err |-> CtorErr, obj |-> << >>]
  ELSE [err |-> NoErr,
        obj |-> << [rows |-> r, cols |-> c, data |-> ZeroData(r, c)] >>]

\* Matrix::get(r, c) const: the exception thrown, or the value returned
MatrixGet(self, r, c) ==
  IF r < 0 \/ r >= self.rows \/ c < 0 \/ c >= self.cols
  THEN [err |-> GetErr, ret |-> << >>]
  ELSE [err |-> NoErr, ret |-> << self.data[r][c] >>]

\* MatrixSet with <= for < in its tests against 0
MatrixSetOneBased(self, r, c, value) ==
  IF r <= 0 \/ r >= self.rows \/ c <= 0 \/ c >= self.cols
  THEN [err |-> SetErr, obj |-> self]
  ELSE [err |-> NoErr, obj |-> [self EXCEPT !.data[r][c] = value]]

\* MatrixSet writing column 0 whatever c is
MatrixSetColumnZero(self, r, c, value) ==
  IF r < 0 \/ r >= self.rows \/ c < 0 \/ c >= self.cols
  THEN [err |-> SetErr, obj |-> self]
  ELSE [err |-> NoErr, obj |-> [self EXCEPT !.data[r][0] = value]]

\* MatrixSet testing the column only after it has written the row's first
\* element
MatrixSetPartial(self, r, c, value) ==
  IF r < 0 \/ r >= self.rows
  THEN [err |-> SetErr, obj |-> self]
  ELSE IF c < 0 \/ c >= self.cols
       THEN [err |-> SetErr, obj |-> [self EXCEPT !.data[r][0] = value]]
       ELSE [err |-> NoErr, obj |-> [self EXCEPT !.data[r][c] = value]]

\* Matrix::set(r, c, value): the exception thrown, and the object afterwards
MatrixSet(self, r, c, value) ==
  IF r < 0 \/ r >= self.rows \/ c < 0 \/ c >= self.cols
  THEN [err |-> SetErr, obj |-> self]
  ELSE [err |-> NoErr, obj |-> [self EXCEPT !.data[r][c] = value]]

\* AddCols stopping one column early
RECURSIVE AddColsShort(_, _, _, _, _)
AddColsShort(self, other, result, i, j) ==
  IF j < self.cols - 1
  THEN AddColsShort(self, other,
                    [result EXCEPT !.data[i][j] =
                        FAdd(self.data[i][j], other.data[i][j])],
                    i, j + 1)
  ELSE result

\* the inner loop of add, over j
RECURSIVE AddCols(_, _, _, _, _)
AddCols(self, other, result, i, j) ==
  IF j < self.cols
  THEN AddCols(self, other,
               [result EXCEPT !.data[i][j] =
                   FAdd(self.data[i][j], other.data[i][j])],
               i, j + 1)
  ELSE result

\* the outer loop of add, over i
RECURSIVE AddRows(_, _, _, _)
AddRows(self, other, result, i) ==
  IF i < self.rows
  THEN AddRows(self, other, AddCols(self, other, result, i, 0), i + 1)
  ELSE result

\* Matrix::add(other) const: the exception thrown, or the matrix returned
MatrixAdd(self, other) ==
  IF self.rows # other.rows \/ self.cols # other.cols
  THEN [err |-> AddErr, obj |-> << >>]
  ELSE LET made == MatrixCtor(self.rows, self.cols)
       IN  IF made.err # NoErr
           THEN made
           ELSE [err |-> NoErr,
                 obj |-> << AddRows(self, other, made.obj[1], 0) >>]

\* MulSum with = for +=
RECURSIVE MulSumOverwrite(_, _, _, _, _, _)
MulSumOverwrite(self, other, i, j, k, sum) ==
  IF k < self.cols
  THEN MulSumOverwrite(self, other, i, j, k + 1,
                       FMul(self.data[i][k], other.data[k][j]))
  ELSE sum

\* MulSum with k starting at 1
RECURSIVE MulSumSkipFirst(_, _, _, _, _, _)
MulSumSkipFirst(self, other, i, j, k, sum) ==
  IF k < self.cols
  THEN MulSumSkipFirst(self, other, i, j, k + 1,
                       IF k = 0
                       THEN sum
                       ELSE FAdd(sum, FMul(self.data[i][k], other.data[k][j])))
  ELSE sum

\* the loop of multiply over k: sum += data[i][k] * other.data[k][j]
RECURSIVE MulSum(_, _, _, _, _, _)
MulSum(self, other, i, j, k, sum) ==
  IF k < self.cols
  THEN MulSum(self, other, i, j, k + 1,
              FAdd(sum, FMul(self.data[i][k], other.data[k][j])))
  ELSE sum

\* the loop of multiply over j
RECURSIVE MulCols(_, _, _, _, _)
MulCols(self, other, result, i, j) ==
  IF j < other.cols
  THEN MulCols(self, other,
               [result EXCEPT !.data[i][j] = MulSum(self, other, i, j, 0, Zero)],
               i, j + 1)
  ELSE result

\* the loop of multiply over i
RECURSIVE MulRows(_, _, _, _)
MulRows(self, other, result, i) ==
  IF i < self.rows
  THEN MulRows(self, other, MulCols(self, other, result, i, 0), i + 1)
  ELSE result

\* Matrix::multiply(other) const: the exception thrown, or the matrix returned
MatrixMultiply(self, other) ==
  IF self.cols # other.rows
  THEN [err |-> MultiplyErr, obj |-> << >>]
  ELSE LET made == MatrixCtor(self.rows, other.cols)
       IN  IF made.err # NoErr
           THEN made
           ELSE [err |-> NoErr,
                 obj |-> << MulRows(self, other, made.obj[1], 0) >>]

\* Matrix::print() const: the lines written to std::cout, one per row and each
\* ended by "\n"; a line is its row's values, each followed by " " (the
\* digits operator<< writes for a double are left as the value)
MatrixPrint(self) ==
  [i \in 1 .. self.rows |->
     [j \in 1 .. self.cols |-> [value |-> self.data[i - 1][j - 1], sep |-> " "]]]

(***************************************************************************)
(* State: the Matrix objects and the caller, which makes one call at a     *)
(* time and holds what the call handed back until it moves on.             *)
(***************************************************************************)
VARIABLES
  mats,     \* the live Matrix objects, by identity
  last,     \* the call that has just returned: its arguments and its outcome
  origin,   \* how each live object came to be: "Matrix", "add" or "multiply"
  setLog,   \* per object and position, the value of the latest successful set
  budget    \* the objects and first writes the run may still make

vars == << mats, last, origin, setLog, budget >>

Live == DOMAIN mats

\* the identity the next object gets
NewId == Cardinality(Live) + 1

\* what a caller passes as a dimension: the values around the constructor's test
DimArgs == {-1, 0, 1, MaxDim}

\* what a caller passes as an index: the values around the tests of get and set
IdxArgs == {-1, 0, MaxDim - 1, MaxDim}

\* what a caller passes to set
SetArgs == {Fin(1), Fin(2)}

Call(op, self, other, r, c, v, err, ret, res, text) ==
  [op |-> op, self |-> self, other |-> other, r |-> r, c |-> c, v |-> v,
   err |-> err, ret |-> ret, res |-> res, text |-> text]

\* the caller is between two calls
NoCall == Call("none", 0, 0, 0, 0, Zero, NoErr, << >>, 0, << >>)

Idle == last = NoCall

Positions(m) == (0 .. m.rows - 1) \X (0 .. m.cols - 1)

NoLog(m) == [p \in Positions(m) |-> << >>]

Init ==
  /\ mats = << >>
  /\ origin = << >>
  /\ setLog = << >>
  /\ last = NoCall
  /\ budget = MaxWork

\* Matrix m(r, c);
Construct(r, c) ==
  LET made == MatrixCtor(r, c)
  IN  /\ Idle
      /\ made.err = NoErr => budget > 0
      /\ IF made.err # NoErr
         THEN /\ last' = Call("Matrix", 0, 0, r, c, Zero, made.err, << >>, 0, << >>)
              /\ UNCHANGED << mats, origin, setLog, budget >>
         ELSE /\ mats' = mats @@ (NewId :> made.obj[1])
              /\ origin' = origin @@ (NewId :> "Matrix")
              /\ setLog' = setLog @@ (NewId :> NoLog(made.obj[1]))
              /\ budget' = budget - 1
              /\ last' = Call("Matrix", 0, 0, r, c, Zero, NoErr, << >>, NewId, << >>)

\* m.get(r, c);
Get(m, r, c) ==
  LET out == MatrixGet(mats[m], r, c)
  IN  /\ Idle
      /\ last' = Call("get", m, 0, r, c, Zero, out.err, out.ret, 0, << >>)
      /\ UNCHANGED << mats, origin, setLog, budget >>

\* m.set(r, c, v);
Set(m, r, c, v) ==
  LET out == MatrixSet(mats[m], r, c, v)
      first == out.err = NoErr /\ setLog[m][<< r, c >>] = << >>
  IN  /\ Idle
      /\ first => budget > 0
      /\ mats' = [mats EXCEPT ![m] = out.obj]
      /\ setLog' = IF out.err = NoErr
                   THEN [setLog EXCEPT ![m][<< r, c >>] = << v >>]
                   ELSE setLog
      /\ budget' = IF first THEN budget - 1 ELSE budget
      /\ last' = Call("set", m, 0, r, c, v, out.err, << >>, 0, << >>)
      /\ UNCHANGED origin

\* Add as +=: the sum is stored in a as well
AddInPlace(a, b) ==
  LET out == MatrixAdd(mats[a], mats[b])
  IN  /\ Idle
      /\ out.err = NoErr => budget > 0
      /\ IF out.err # NoErr
         THEN /\ last' = Call("add", a, b, 0, 0, Zero, out.err, << >>, 0, << >>)
              /\ UNCHANGED << mats, origin, setLog, budget >>
         ELSE /\ mats' = [mats EXCEPT ![a] = out.obj[1]] @@ (NewId :> out.obj[1])
              /\ origin' = origin @@ (NewId :> "add")
              /\ setLog' = setLog @@ (NewId :> NoLog(out.obj[1]))
              /\ budget' = budget - 1
              /\ last' = Call("add", a, b, 0, 0, Zero, NoErr, << >>, NewId, << >>)

\* Matrix result = a.add(b);
Add(a, b) ==
  LET out == MatrixAdd(mats[a], mats[b])
  IN  /\ Idle
      /\ out.err = NoErr => budget > 0
      /\ IF out.err # NoErr
         THEN /\ last' = Call("add", a, b, 0, 0, Zero, out.err, << >>, 0, << >>)
              /\ UNCHANGED << mats, origin, setLog, budget >>
         ELSE /\ mats' = mats @@ (NewId :> out.obj[1])
              /\ origin' = origin @@ (NewId :> "add")
              /\ setLog' = setLog @@ (NewId :> NoLog(out.obj[1]))
              /\ budget' = budget - 1
              /\ last' = Call("add", a, b, 0, 0, Zero, NoErr, << >>, NewId, << >>)

\* Matrix result = a.multiply(b);
Multiply(a, b) ==
  LET out == MatrixMultiply(mats[a], mats[b])
  IN  /\ Idle
      /\ out.err = NoErr => budget > 0
      /\ IF out.err # NoErr
         THEN /\ last' = Call("multiply", a, b, 0, 0, Zero, out.err, << >>, 0, << >>)
              /\ UNCHANGED << mats, origin, setLog, budget >>
         ELSE /\ mats' = mats @@ (NewId :> out.obj[1])
              /\ origin' = origin @@ (NewId :> "multiply")
              /\ setLog' = setLog @@ (NewId :> NoLog(out.obj[1]))
              /\ budget' = budget - 1
              /\ last' = Call("multiply", a, b, 0, 0, Zero, NoErr, << >>, NewId, << >>)

\* m.print();
PrintMatrix(m) ==
  /\ Idle
  /\ last' = Call("print", m, 0, 0, 0, Zero, NoErr, << >>, 0, MatrixPrint(mats[m]))
  /\ UNCHANGED << mats, origin, setLog, budget >>

\* the caller drops what the call handed back and goes on to its next call
Proceed ==
  /\ ~Idle
  /\ last' = NoCall
  /\ UNCHANGED << mats, origin, setLog, budget >>

Next ==
  \/ \E r \in DimArgs, c \in DimArgs : Construct(r, c)
  \/ \E m \in Live, r \in IdxArgs, c \in IdxArgs : Get(m, r, c)
  \/ \E m \in Live, r \in IdxArgs, c \in IdxArgs, v \in SetArgs : Set(m, r, c, v)
  \/ \E a \in Live, b \in Live : Add(a, b)
  \/ \E a \in Live, b \in Live : Multiply(a, b)
  \/ \E m \in Live : PrintMatrix(m)
  \/ Proceed

Spec == Init /\ [][Next]_vars

(***************************************************************************)
(* add and multiply on their own: the operands are drawn from a bounded    *)
(* set of matrices a caller can build with the constructor and set, and    *)
(* one call is made on them.                                               *)
(***************************************************************************)
\* the values the operands hold besides 0.0
ArithArgs == {Fin(1), Fin(-1), NegZero, PosInf, NegInf, NaN}

Shapes == (1 .. MaxDim) \X (1 .. MaxDim)

\* Matrix m(r, c);
ZeroMatrix(r, c) == MatrixCtor(r, c).obj[1]

\* Matrix m(r, c); m.set(i, j, v);
OneSet(r, c) ==
  {MatrixSet(ZeroMatrix(r, c), i, j, v).obj :
     i \in 0 .. r - 1, j \in 0 .. c - 1, v \in ArithArgs}

\* Matrix m(r, c); m.set(i, j, k + i * c + j + 1) for every i and j
Ramp(r, c, k) ==
  [rows |-> r, cols |-> c,
   data |-> [i \in 0 .. r - 1 |-> [j \in 0 .. c - 1 |-> Fin(k + i * c + j + 1)]]]

\* Matrix m(n, n); m.set(d, d, 1.0) for every d below n
RECURSIVE SetDiagonal(_, _)
SetDiagonal(m, d) ==
  IF d < m.rows
  THEN SetDiagonal(MatrixSet(m, d, d, Fin(1)).obj, d + 1)
  ELSE m

Identity(n) == SetDiagonal(ZeroMatrix(n, n), 0)

Operands ==
  UNION {{ZeroMatrix(s[1], s[2]), Ramp(s[1], s[2], 0), Ramp(s[1], s[2], 4)}
           \cup OneSet(s[1], s[2]) : s \in Shapes}
    \cup {Identity(n) : n \in 1 .. MaxDim}

\* a log of sets that leaves m as it is
LogOf(m) ==
  [p \in Positions(m) |->
     IF m.data[p[1]][p[2]] = Zero THEN << >> ELSE << m.data[p[1]][p[2]] >>]

InitArith ==
  /\ \E A \in Operands, B \in Operands :
       /\ mats = << A, B >>
       /\ setLog = << LogOf(A), LogOf(B) >>
  /\ origin = << "Matrix", "Matrix" >>
  /\ last = NoCall
  /\ budget = 1

NextArith ==
  \/ \E a \in Live, b \in Live : Add(a, b)
  \/ \E a \in Live, b \in Live : Multiply(a, b)

SpecArith == InitArith /\ [][NextArith]_vars

(***************************************************************************)
(* What the claims speak of.                                               *)
(***************************************************************************)
\* a step in which a call returns
Returns(op) == Idle /\ last'.op = op

\* data holds exactly rows rows of exactly cols elements
WellShaped(m) ==
  /\ DOMAIN m.data = 0 .. m.rows - 1
  /\ \A i \in DOMAIN m.data : DOMAIN m.data[i] = 0 .. m.cols - 1

\* the sum over k below n of A[i][k] * B[k][j]
RECURSIVE InnerProduct(_, _, _, _, _)
InnerProduct(A, B, i, j, n) ==
  IF n = 0
  THEN Zero
  ELSE FAdd(InnerProduct(A, B, i, j, n - 1), FMul(A.data[i][n - 1], B.data[n - 1][j]))

\* C1: a.multiply(b) throws the dimension-mismatch error exactly when
\* a.cols # b.rows; otherwise it returns a matrix of a.rows rows and b.cols
\* columns whose entry (i, j) is the sum over k of a[i][k] * b[k][j].
MultiplyContract ==
  last.op = "multiply" =>
    LET A == mats[last.self]
        B == mats[last.other]
    IN  IF A.cols # B.rows
        THEN last.err = MultiplyErr /\ last.res = 0
        ELSE /\ last.err = NoErr
             /\ last.res \in Live
             /\ LET C == mats[last.res]
                IN  /\ C.rows = A.rows
                    /\ C.cols = B.cols
                    /\ WellShaped(C)
                    /\ \A i \in 0 .. A.rows - 1, j \in 0 .. B.cols - 1 :
                         C.data[i][j] = InnerProduct(A, B, i, j, A.cols)

\* [[1,2],[3,4]] times [[5,6],[7,8]] has given [[19,22],[43,50]]
MultiplyExample ==
  /\ last.op = "multiply"
  /\ last.err = NoErr
  /\ mats[last.self] = Ramp(2, 2, 0)
  /\ mats[last.other] = Ramp(2, 2, 4)
  /\ mats[last.res].data =
       [i \in 0 .. 1 |-> [j \in 0 .. 1 |->
          Fin(IF i = 0 THEN (IF j = 0 THEN 19 ELSE 22)
                       ELSE (IF j = 0 THEN 43 ELSE 50))]]

\* C2: a.add(b) throws the dimension-mismatch error exactly when the shapes
\* differ; otherwise it returns a matrix of a's shape whose entry (i, j) is
\* a[i][j] + b[i][j].
AddContract ==
  last.op = "add" =>
    LET A == mats[last.self]
        B == mats[last.other]
    IN  IF B.rows # A.rows \/ B.cols # A.cols
        THEN last.err = AddErr /\ last.res = 0
        ELSE /\ last.err = NoErr
             /\ last.res \in Live
             /\ LET C == mats[last.res]
                IN  /\ C.rows = A.rows
                    /\ C.cols = A.cols
                    /\ WellShaped(C)
                    /\ \A i \in 0 .. A.rows - 1, j \in 0 .. A.cols - 1 :
                         C.data[i][j] = FAdd(A.data[i][j], B.data[i][j])

\* two different objects have been added and the sum is [[6,8],[10,12]]
AddExample ==
  /\ last.op = "add"
  /\ last.err = NoErr
  /\ last.self # last.other
  /\ mats[last.self] = Ramp(2, 2, 0)
  /\ mats[last.res].data =
       [i \in 0 .. 1 |-> [j \in 0 .. 1 |-> Fin(6 + 4 * i + 2 * j)]]

\* C3: Matrix(r, c) throws the invalid-dimensions error exactly when r <= 0
\* or c <= 0, and then no object comes to be; otherwise one new object does,
\* with rows = r and cols = c, in which get(i, j) returns 0.0 everywhere.
ConstructContract ==
  [][Returns("Matrix") =>
       LET r == last'.r
           c == last'.c
       IN  IF r <= 0 \/ c <= 0
           THEN last'.err = CtorErr /\ last'.res = 0 /\ mats' = mats
           ELSE /\ last'.err = NoErr
                /\ last'.res \notin Live
                /\ DOMAIN mats' = Live \cup {last'.res}
                /\ \A m \in Live : mats'[m] = mats[m]
                /\ mats'[last'.res].rows = r
                /\ mats'[last'.res].cols = c
                /\ \A i \in 0 .. r - 1, j \in 0 .. c - 1 :
                     MatrixGet(mats'[last'.res], i, j) =
                       [err |-> NoErr, ret |-> << Zero >>]]_vars

\* a matrix of MaxDim rows and one column has been constructed
ConstructedTall ==
  /\ last.op = "Matrix"
  /\ last.err = NoErr
  /\ last.r = MaxDim
  /\ last.c = 1
  /\ mats[last.res].rows = MaxDim

OutOfRange(m, r, c) == r < 0 \/ r >= m.rows \/ c < 0 \/ c >= m.cols

\* C4: get(r, c) and set(r, c, v) throw the index-out-of-range error exactly
\* when r < 0, r >= rows, c < 0 or c >= cols, and succeed otherwise; a call
\* that throws has read no element (it hands back no value) and written none.
IndexValidation ==
  [][Returns("get") \/ Returns("set") =>
       LET m == mats[last'.self]
       IN  IF OutOfRange(m, last'.r, last'.c)
           THEN /\ last'.err = (IF last'.op = "get" THEN GetErr ELSE SetErr)
                /\ last'.err.type = "std::out_of_range"
                /\ last'.ret = << >>
                /\ mats' = mats
           ELSE /\ last'.err = NoErr
                /\ last'.op = "get" => last'.ret = << m.data[last'.r][last'.c] >>
                /\ last'.op = "set" => mats'[last'.self].data[last'.r][last'.c] = last'.v]_vars

\* set has thrown for a column one past the end, on a matrix set has written
SetRejected ==
  /\ last.op = "set"
  /\ last.err = SetErr
  /\ last.r = 0
  /\ last.c = mats[last.self].cols
  /\ setLog[last.self][<< 0, 0 >>] # << >>

\* C5: add and multiply, thrown or not, leave every existing object as it
\* was, and a set on one object changes no other object: the result of an
\* add or multiply and its operands share nothing.
OperandsUntouched ==
  [][/\ Returns("add") \/ Returns("multiply") =>
          \A m \in Live : mats'[m] = mats[m]
     /\ Returns("set") =>
          \A m \in Live \ {last'.self} : mats'[m] = mats[m]]_vars

\* the result of an add has been written while its operand holds the value
\* it held before
ResultWritten ==
  /\ last.op = "set"
  /\ last.err = NoErr
  /\ origin[last.self] = "add"
  /\ mats[last.self].data[0][0] = Fin(1)
  /\ mats[1].data[0][0] = Zero
  /\ origin[1] = "Matrix"

\* C6: every live object has rows > 0 and cols > 0 and data of exactly rows
\* rows of exactly cols elements, and no step removes an object or changes
\* the rows or cols of one.
ShapeInvariant ==
  [][/\ \A m \in DOMAIN mats' :
          mats'[m].rows > 0 /\ mats'[m].cols > 0 /\ WellShaped(mats'[m])
     /\ \A m \in Live :
          /\ m \in DOMAIN mats'
          /\ mats'[m].rows = mats[m].rows
          /\ mats'[m].cols = mats[m].cols]_vars

\* a product that is not square is alive beside its operands, and has been
\* printed
ProductPrinted ==
  /\ last.op = "print"
  /\ origin[last.self] = "multiply"
  /\ mats[last.self].rows # mats[last.self].cols
  /\ Len(last.text) = mats[last.self].rows

\* the value get returns by the claim: the latest successful set, else 0.0
Expected(m, r, c) ==
  IF setLog[m][<< r, c >>] = << >> THEN Zero ELSE setLog[m][<< r, c >>][1]

\* C7 as stated: on every object, get(r, c) returns the value of the latest
\* successful set(r, c, .) on it, or 0.0 if there has been none.
GetReturnsLatestSetOrZero ==
  last.op = "get" /\ last.err = NoErr =>
    last.ret = << Expected(last.self, last.r, last.c) >>

\* C7 as amended: a successful set(r, c, v) leaves v at (r, c), every other
\* entry of the object and every other object as they were; get changes
\* nothing; and on an object made by the constructor get(r, c) returns the
\* value of the latest successful set(r, c, .), or 0.0 if there has been none.
SetGetRoundTrip ==
  [][/\ Returns("set") /\ last'.err = NoErr =>
          LET m == last'.self
          IN  /\ MatrixGet(mats'[m], last'.r, last'.c) =
                   [err |-> NoErr, ret |-> << last'.v >>]
              /\ \A p \in Positions(mats[m]) \ {<< last'.r, last'.c >>} :
                   mats'[m].data[p[1]][p[2]] = mats[m].data[p[1]][p[2]]
              /\ \A o \in Live \ {m} : mats'[o] = mats[o]
     /\ Returns("get") =>
          /\ mats' = mats
          /\ last'.err = NoErr /\ origin[last'.self] = "Matrix" =>
               last'.ret = << Expected(last'.self, last'.r, last'.c) >>]_vars

\* get has returned the second of two values set at one position
SecondSetRead ==
  /\ last.op = "get"
  /\ last.err = NoErr
  /\ origin[last.self] = "Matrix"
  /\ last.ret = << Fin(2) >>
  /\ budget = MaxWork - 2
  /\ Cardinality(Live) = 1

\* C8: a get, set, add or multiply that throws leaves every object as it
\* was and yields no object.
NoPartialFailure ==
  [][(/\ Idle
       /\ last'.op \in {"get", "set", "add", "multiply"}
       /\ last'.err # NoErr) =>
          mats' = mats /\ last'.res = 0]_vars

\* an add has thrown on operands of different shapes, one of them written
AddRejected ==
  /\ last.op = "add"
  /\ last.err = AddErr
  /\ mats[last.self].cols # mats[last.other].cols
  /\ mats[last.self].data[0][0] = Fin(2)

\* the kind of error each operation is to raise
KindOf(op) ==
  CASE op = "Matrix" -> "invalid-dimensions"
    [] op \in {"get", "set"} -> "index-out-of-range"
    [] op \in {"add", "multiply"} -> "dimension-mismatch"
    [] OTHER -> "none"

Kinds == {"invalid-dimensions", "index-out-of-range", "dimension-mismatch"}

\* the exceptions the code of each kind's operations throws
Signals ==
  LET ms == {ZeroMatrix(s[1], s[2]) : s \in Shapes}
  IN  [kind \in Kinds |->
         CASE kind = "invalid-dimensions" ->
                {MatrixCtor(r, c).err : r \in DimArgs, c \in DimArgs} \ {NoErr}
           [] kind = "index-out-of-range" ->
                ({MatrixGet(m, r, c).err : m \in ms, r \in IdxArgs, c \in IdxArgs}
                   \cup {MatrixSet(m, r, c, Zero).err :
                           m \in ms, r \in IdxArgs, c \in IdxArgs}) \ {NoErr}
           [] kind = "dimension-mismatch" ->
                ({MatrixAdd(a, b).err : a \in ms, b \in ms}
                   \cup {MatrixMultiply(a, b).err : a \in ms, b \in ms}) \ {NoErr}]

\* C9: a call that throws throws the error of its operation's kind
\* (invalid-dimensions from the constructor, index-out-of-range from get and
\* set, dimension-mismatch from add and multiply); what is thrown (exception
\* class and message) is thrown by no operation of another kind, and names
\* the operation that threw.
ErrorTaxonomy ==
  last.err # NoErr =>
    /\ KindOf(last.op) \in Kinds
    /\ last.err \in Signals[KindOf(last.op)]
    /\ \A k \in Kinds \ {KindOf(last.op)} : last.err \notin Signals[k]
    /\ last.err.where = (IF last.op = "Matrix" THEN "Matrix::Matrix"
                         ELSE IF last.op = "get" THEN "Matrix::get"
                         ELSE IF last.op = "set" THEN "Matrix::set"
                         ELSE IF last.op = "add" THEN "Matrix::add"
                         ELSE "Matrix::multiply")

\* a multiply has thrown std::invalid_argument, the class the constructor
\* throws too
MultiplyRejected ==
  /\ last.op = "multiply"
  /\ last.err # NoErr
  /\ last.err.type = CtorErr.type
  /\ mats[last.self].cols # mats[last.other].rows

\* a.multiply(I) has returned, a square of side n and I the identity of side n
TimesIdentity ==
  /\ last.op = "multiply"
  /\ mats[last.self].rows = mats[last.self].cols
  /\ mats[last.other] = Identity(mats[last.self].rows)

AllFinite(m) ==
  \A p \in Positions(m) : IsFinite(m.data[p[1]][p[2]])

\* the result of the last call equals m elementwise, by == on doubles
ResultEquals(m) ==
  /\ last.err = NoErr
  /\ last.res \in Live
  /\ mats[last.res].rows = m.rows
  /\ mats[last.res].cols = m.cols
  /\ \A p \in Positions(m) :
       FEq(mats[last.res].data[p[1]][p[2]], m.data[p[1]][p[2]])

\* the result of the last call holds, entry by entry, a value that is == to
\* the entry of m or is the very same value (a NaN for a NaN)
ResultMatches(m) ==
  /\ last.err = NoErr
  /\ last.res \in Live
  /\ mats[last.res].rows = m.rows
  /\ mats[last.res].cols = m.cols
  /\ \A p \in Positions(m) :
       \/ FEq(mats[last.res].data[p[1]][p[2]], m.data[p[1]][p[2]])
       \/ mats[last.res].data[p[1]][p[2]] = m.data[p[1]][p[2]]

\* C10 as stated: a.multiply(I) succeeds and equals a elementwise, whatever
\* values a holds (here even with a NaN counted as equal to a NaN).
IdentityLawAnyValue ==
  TimesIdentity => ResultMatches(mats[last.self])

\* C10 as amended: a.multiply(I) succeeds and equals a elementwise when
\* every entry of a is finite.
IdentityLawFinite ==
  TimesIdentity /\ AllFinite(mats[last.self]) => ResultEquals(mats[last.self])

\* [[1,2],[3,4]] has been multiplied by the identity of side 2
RampTimesIdentity ==
  /\ TimesIdentity
  /\ mats[last.self] = Ramp(2, 2, 0)
  /\ mats[last.res].data = Ramp(2, 2, 0).data

====
